---------------------------- MODULE Spec2Model ----------------------------
(***************************************************************************)
(* State-machine model of the MapBox page component                        *)
(* (src/app/[locale]/map/page.tsx): the feature builder, the style         *)
(* resolver (map style, initial zoom, colour ramps, zoom-driven radii),    *)
(* the popup selection state, the theme effect on the root element's       *)
(* presentation variables and the locale-gated language control.           *)
(*                                                                         *)
(* Numbers that are real-valued in the program are kept exact: a           *)
(* coordinate is an integer number of hundredths of a degree, the zoom is  *)
(* an integer number of 1/ZoomDen zoom levels, and an interpolated value   *)
(* is a fraction [num, den] with den > 0.                                  *)
(***************************************************************************)
EXTENDS Integers, Sequences, FiniteSets, TLC

VARIABLES
    mountState,          \* "initial" | "mounted" | "unmounted"
    resolvedTheme,       \* useTheme().resolvedTheme
    locale,              \* useLocale()
    isMobile,            \* useMediaQuery(...)
    coordinates,         \* useQuery().data: Null or Some(sequence of records)
    popupInfo,           \* useState: Null or Some(payload)
    mapReady,            \* the Map surface instance exists (ref is non-null)
    languageControls,    \* MapboxLanguage controls added to that instance
    rootStyle,           \* inline style declarations of document.documentElement
    originalBackground,  \* captured by the pending effect cleanup
    originalForeground,  \* captured by the pending effect cleanup
    zoom,                \* the surface's current zoom, in 1/ZoomDen levels
    initialStyle,        \* history: rootStyle before the component mounted
    lastEvent,           \* history: kind of the handler that ran last
    lastHit              \* history: top-most hit of the last click, Null after a close

vars == << mountState, resolvedTheme, locale, isMobile, coordinates, popupInfo,
           mapReady, languageControls, rootStyle, originalBackground,
           originalForeground, zoom, initialStyle, lastEvent, lastHit >>

-----------------------------------------------------------------------------
(* Bounds of the model *)

MaxRecords == 2
MaxRampSize == 6
MaxHits == 2
MaxControls == 2
ZoomDen == 4

-----------------------------------------------------------------------------
(* null / undefined and present values *)

Null == << >>
Some(v) == << v >>
Val(o) == o[1]

Undefined == "undefined"

-----------------------------------------------------------------------------
(* Environment inputs *)

Themes == { Undefined, "light", "dark", "sepia", "constructor" }

Locales == { "zh", "en" }

PhotoA == [ longitude |-> 11638, latitude |-> 3990, url |-> "a.jpg",
            blurData |-> "blurA", width |-> 100, height |-> 200 ]

PhotoB == [ longitude |-> 12147, latitude |-> 3123, url |-> "b.jpg",
            blurData |-> "blurB", width |-> 50, height |-> 50 ]

Records == { PhotoA, PhotoB }

Datasets(S, n) == UNION { [1..k -> S] : k \in 0..n }

-----------------------------------------------------------------------------
(* Style resolver: map style                                                *)

LightStyle == "mapbox://styles/mapbox/light-v11"
DarkStyle == "mapbox://styles/mapbox/dark-v11"

\* Property names every object literal inherits from Object.prototype.
ObjectPrototypeKeys ==
    { "constructor", "toString", "toLocaleString", "valueOf",
      "hasOwnProperty", "isPrototypeOf", "propertyIsEnumerable", "__proto__" }

\* styles[key]: own properties first, then the prototype chain.
StylesLookup(key) ==
    CASE key = "light" -> LightStyle
      [] key = "dark" -> DarkStyle
      [] key \in ObjectPrototypeKeys -> "Object.prototype." \o key
      [] OTHER -> Undefined

\* styles[resolvedTheme] || styles.light
ResolveMapStyle(theme) ==
    IF StylesLookup(theme) # Undefined THEN StylesLookup(theme) ELSE LightStyle

mapStyle == ResolveMapStyle(resolvedTheme)

\* isMobile ? 1 : 2
ResolveInitialZoom(mobile) == IF mobile THEN 1 ELSE 2

mapZoom == ResolveInitialZoom(isMobile)

-----------------------------------------------------------------------------
(* Feature builder                                                          *)

\* BuildFeature numbering the features from 1.
BuildFeatureOneBased(coord, index) ==
    [ type |-> "Feature",
      geometry |-> [ type |-> "Point",
                     coordinates |-> << coord.longitude, coord.latitude >> ],
      properties |-> [ id |-> index + 1,
                       url |-> coord.url,
                       blurData |-> coord.blurData,
                       width |-> coord.width,
                       height |-> coord.height ] ]

\* index is the 0-based position of coord in the input array
BuildFeature(coord, index) ==
    [ type |-> "Feature",
      geometry |-> [ type |-> "Point",
                     coordinates |-> << coord.longitude, coord.latitude >> ],
      properties |-> [ id |-> index,
                       url |-> coord.url,
                       blurData |-> coord.blurData,
                       width |-> coord.width,
                       height |-> coord.height ] ]

\* if (!coordinates) return null; else coordinates.map(...)
BuildGeojson(coords) ==
    IF coords = Null
    THEN Null
    ELSE Some([ type |-> "FeatureCollection",
                features |-> [ i \in 1..Len(Val(coords)) |->
                                 BuildFeature(Val(coords)[i], i - 1) ] ])

geojsonData == BuildGeojson(coordinates)

\* {geojsonData && <Source> ... </Source>}
LayersRendered == geojsonData # Null

-----------------------------------------------------------------------------
(* Style resolver: interpolate expressions                                  *)

Frac(n, d) == [ num |-> n, den |-> d ]
FracEq(a, b) == a.num * b.den = b.num * a.den
FracLt(a, b) == a.num * b.den < b.num * a.den
FracLe(a, b) == a.num * b.den <= b.num * a.den

\* ["interpolate", ["linear"], input, x0, y0, x1, y1] evaluated at the input
\* inNum/inDen: clamped to the outer stops, linear in between.
Interpolate(inNum, inDen, x0, y0, x1, y1) ==
    IF inNum <= x0 * inDen THEN Frac(y0, 1)
    ELSE IF inNum >= x1 * inDen THEN Frac(y1, 1)
    ELSE Frac(y0 * (x1 * inDen - inNum) + y1 * (inNum - x0 * inDen),
              (x1 - x0) * inDen)

\* The style validator accepts an interpolate expression only when its stop
\* inputs are strictly ascending.
StopsValid(x0, x1) == x0 < x1

MaxZoom == 22

ZoomLevels == 0..(MaxZoom * ZoomDen)

\* HitboxRadius with its two outputs exchanged.
HitboxRadiusSwapped(z) == Interpolate(z, ZoomDen, 0, 30, MaxZoom, 10)

HitboxRadius(z) == Interpolate(z, ZoomDen, 0, 10, MaxZoom, 30)
GlowRadius(z) == Interpolate(z, ZoomDen, 0, 5, MaxZoom, 20)
PointRadius(z) == Interpolate(z, ZoomDen, 0, 3, MaxZoom, 12)

\* RampUpper ending the ramp on the last index, length - 1.
RampUpperLastIndex(coords) == IF coords = Null THEN 1 ELSE Len(Val(coords)) - 1

\* RampUpper ending the ramp one past the length.
RampUpperPastEnd(coords) == IF coords = Null THEN 1 ELSE Len(Val(coords)) + 1

\* coordinates?.length ?? 1
RampUpper(coords) == IF coords = Null THEN 1 ELSE Len(Val(coords))

GlowStart == << 255, 153, 0 >>    \* "#FF9900"
GlowEnd == << 0, 255, 255 >>      \* "#00FFFF"
PointStart == << 255, 102, 0 >>   \* "#FF6600"
PointEnd == << 0, 204, 255 >>     \* "#00CCFF"

Channels == 1..3

\* a colour ramp over ["get", "id"], channel by channel
Ramp(id, upper, start, end) ==
    [ c \in Channels |-> Interpolate(id, 1, 0, start[c], upper, end[c]) ]

GlowColor(id, coords) == Ramp(id, RampUpper(coords), GlowStart, GlowEnd)
PointColor(id, coords) == Ramp(id, RampUpper(coords), PointStart, PointEnd)

Solid(color) == [ c \in Channels |-> Frac(color[c], 1) ]
ColorEq(a, b) == \A c \in Channels : FracEq(a[c], b[c])

-----------------------------------------------------------------------------
(* Environment sync: inline style of the root element                       *)

CssVars == { "--background", "--foreground" }

\* style.getPropertyValue(name): "" when the property is not declared
GetPropertyValue(style, name) ==
    IF name \in DOMAIN style THEN style[name] ELSE ""

\* style.setProperty(name, value): the empty string removes the declaration
SetProperty(style, name, value) ==
    IF value = ""
    THEN [ n \in (DOMAIN style) \ { name } |-> style[n] ]
    ELSE [ n \in (DOMAIN style) \cup { name } |->
             IF n = name THEN value ELSE style[n] ]

ThemeBackground(theme) == IF theme = "dark" THEN "#333333" ELSE "#f5f5f5"
ThemeForeground(theme) == IF theme = "dark" THEN "#f0f0f0" ELSE "#333333"

\* body of the effect
ApplyTheme(style, theme) ==
    SetProperty(SetProperty(style, "--background", ThemeBackground(theme)),
                "--foreground", ThemeForeground(theme))

\* RestoreTheme clearing both variables instead of writing back the
\* recorded values.
RestoreThemeClears(style, background, foreground) ==
    [ n \in (DOMAIN style) \ CssVars |-> style[n] ]

\* the function the effect returns
RestoreTheme(style, background, foreground) ==
    SetProperty(SetProperty(style, "--background", background),
                "--foreground", foreground)

\* Before the component mounts each variable is either not declared on the
\* root element or declared with some value.
InitialValues == { "#ffffff" }

InitialStyles == UNION { [ declared -> InitialValues ] : declared \in SUBSET CssVars }

-----------------------------------------------------------------------------
(* Selection controller                                                     *)

\* A feature of some other geometry; onClick never reads its coordinates.
OtherFeature ==
    [ type |-> "Feature",
      geometry |-> [ type |-> "LineString", coordinates |-> << 0, 0 >> ],
      properties |-> [ id |-> 0, url |-> "", blurData |-> "",
                       width |-> 0, height |-> 0 ] ]

Range(f) == { f[i] : i \in DOMAIN f }

\* What a click can report in event.features: the features of the photo
\* source under the pointer (one entry per interactive layer hit), top-most
\* first.
RenderedFeatures ==
    IF LayersRendered THEN Range(Val(geojsonData).features) ELSE { }

HitLists == Datasets(RenderedFeatures \cup { OtherFeature }, MaxHits)

\* event.features?.[0]
TopFeature(features) ==
    IF Len(features) = 0 THEN Null ELSE Some(features[1])

PopupOf(feature) ==
    [ longitude |-> feature.geometry.coordinates[1],
      latitude |-> feature.geometry.coordinates[2],
      url |-> feature.properties.url,
      blurData |-> feature.properties.blurData,
      width |-> feature.properties.width,
      height |-> feature.properties.height ]

\* OnClick without its else branch: a miss leaves the popup as it is.
OnClickKeepsOnMiss(features) ==
    LET feature == TopFeature(features)
    IN  IF feature # Null /\ Val(feature).geometry.type = "Point"
        THEN Some(PopupOf(Val(feature)))
        ELSE popupInfo

\* the value onClick hands to setPopupInfo
OnClick(features) ==
    LET feature == TopFeature(features)
    IN  IF feature # Null /\ Val(feature).geometry.type = "Point"
        THEN Some(PopupOf(Val(feature)))
        ELSE Null

\* onClose={() => setPopupInfo(null)}
OnClose == Null

\* {popupInfo && <Popup ...>}: the popups in the rendered tree
RenderedPopups == IF popupInfo # Null THEN { Val(popupInfo) } ELSE { }

-----------------------------------------------------------------------------
(* Locale-conditional control attachment                                    *)

\* mapRef(ref): the number of language controls on the surface afterwards
MapRef(ref, loc, controls) ==
    IF ref /\ loc = "zh" THEN controls + 1 ELSE controls

-----------------------------------------------------------------------------
(* Initial state: the props and hooks of the first render, before mount     *)

Init ==
    /\ mountState = "initial"
    /\ resolvedTheme \in Themes
    /\ locale \in Locales
    /\ isMobile \in BOOLEAN
    /\ coordinates = Null
    /\ popupInfo = Null
    /\ mapReady = FALSE
    /\ languageControls = 0
    /\ rootStyle \in InitialStyles
    /\ originalBackground = ""
    /\ originalForeground = ""
    /\ zoom = mapZoom * ZoomDen
    /\ initialStyle = rootStyle
    /\ lastEvent = "init"
    /\ lastHit = Null

-----------------------------------------------------------------------------
(* Handlers                                                                 *)

\* First commit: the theme effect runs.
Mount ==
    /\ mountState = "initial"
    /\ mountState' = "mounted"
    /\ originalBackground' = GetPropertyValue(rootStyle, "--background")
    /\ originalForeground' = GetPropertyValue(rootStyle, "--foreground")
    /\ rootStyle' = ApplyTheme(rootStyle, resolvedTheme)
    /\ lastEvent' = "mount"
    /\ UNCHANGED << resolvedTheme, locale, isMobile, coordinates, popupInfo,
                    mapReady, languageControls, zoom, initialStyle, lastHit >>

\* The surface is created and the ref callback receives it.
SurfaceReady ==
    /\ mountState = "mounted"
    /\ ~mapReady
    /\ MapRef(TRUE, locale, languageControls) <= MaxControls
    /\ mapReady' = TRUE
    /\ languageControls' = MapRef(TRUE, locale, languageControls)
    /\ lastEvent' = "ready"
    /\ UNCHANGED << mountState, resolvedTheme, locale, isMobile, coordinates,
                    popupInfo, rootStyle, originalBackground,
                    originalForeground, zoom, initialStyle, lastHit >>

\* resolvedTheme changes: the old effect's cleanup runs, then the effect.
ThemeChange(theme) ==
    /\ mountState = "mounted"
    /\ theme # resolvedTheme
    /\ resolvedTheme' = theme
    /\ LET restored == RestoreTheme(rootStyle, originalBackground,
                                    originalForeground)
       IN  /\ originalBackground' = GetPropertyValue(restored, "--background")
           /\ originalForeground' = GetPropertyValue(restored, "--foreground")
           /\ rootStyle' = ApplyTheme(restored, theme)
    /\ lastEvent' = "theme"
    /\ UNCHANGED << mountState, locale, isMobile, coordinates, popupInfo,
                    mapReady, languageControls, zoom, initialStyle, lastHit >>

\* locale changes: mapRef gets a new identity, so the old callback is called
\* with null and the new one with the current ref.
LocaleChange(loc) ==
    /\ mountState = "mounted"
    /\ loc # locale
    /\ MapRef(mapReady, loc, languageControls) <= MaxControls
    /\ locale' = loc
    /\ languageControls' =
         MapRef(mapReady, loc, MapRef(FALSE, locale, languageControls))
    /\ lastEvent' = "locale"
    /\ UNCHANGED << mountState, resolvedTheme, isMobile, coordinates, popupInfo,
                    mapReady, rootStyle, originalBackground,
                    originalForeground, zoom, initialStyle, lastHit >>

\* The media query flips; initialViewState is not applied again.
ViewportChange ==
    /\ mountState = "mounted"
    /\ isMobile' = ~isMobile
    /\ lastEvent' = "viewport"
    /\ UNCHANGED << mountState, resolvedTheme, locale, coordinates, popupInfo,
                    mapReady, languageControls, rootStyle, originalBackground,
                    originalForeground, zoom, initialStyle, lastHit >>

\* DatasetArrive resetting the selection along with the feature collection.
DatasetArriveClearsPopup(records) ==
    /\ mountState = "mounted"
    /\ coordinates # Some(records)
    /\ coordinates' = Some(records)
    /\ popupInfo' = Null
    /\ lastEvent' = "dataset"
    /\ UNCHANGED << mountState, resolvedTheme, locale, isMobile,
                    mapReady, languageControls, rootStyle, originalBackground,
                    originalForeground, zoom, initialStyle, lastHit >>

\* The query settles or refetches with another array.
DatasetArrive(records) ==
    /\ mountState = "mounted"
    /\ coordinates # Some(records)
    /\ coordinates' = Some(records)
    /\ lastEvent' = "dataset"
    /\ UNCHANGED << mountState, resolvedTheme, locale, isMobile, popupInfo,
                    mapReady, languageControls, rootStyle, originalBackground,
                    originalForeground, zoom, initialStyle, lastHit >>

\* A click on the surface.
Click(features) ==
    /\ mountState = "mounted"
    /\ mapReady
    /\ popupInfo' = OnClick(features)
    /\ lastEvent' = "click"
    /\ lastHit' = TopFeature(features)
    /\ UNCHANGED << mountState, resolvedTheme, locale, isMobile, coordinates,
                    mapReady, languageControls, rootStyle, originalBackground,
                    originalForeground, zoom, initialStyle >>

\* The popup's close button.
PopupClose ==
    /\ mountState = "mounted"
    /\ popupInfo # Null
    /\ popupInfo' = OnClose
    /\ lastEvent' = "close"
    /\ lastHit' = Null
    /\ UNCHANGED << mountState, resolvedTheme, locale, isMobile, coordinates,
                    mapReady, languageControls, rootStyle, originalBackground,
                    originalForeground, zoom, initialStyle >>

\* The user zooms the surface.
ZoomTo(z) ==
    /\ mountState = "mounted"
    /\ mapReady
    /\ z # zoom
    /\ zoom' = z
    /\ lastEvent' = "zoom"
    /\ UNCHANGED << mountState, resolvedTheme, locale, isMobile, coordinates,
                    popupInfo, mapReady, languageControls, rootStyle,
                    originalBackground, originalForeground, initialStyle,
                    lastHit >>

\* Teardown: the pending cleanup runs.
Unmount ==
    /\ mountState = "mounted"
    /\ mountState' = "unmounted"
    /\ rootStyle' = RestoreTheme(rootStyle, originalBackground,
                                 originalForeground)
    /\ lastEvent' = "unmount"
    /\ UNCHANGED << resolvedTheme, locale, isMobile, coordinates, popupInfo,
                    mapReady, languageControls, originalBackground,
                    originalForeground, zoom, initialStyle, lastHit >>

-----------------------------------------------------------------------------
(* Specifications                                                           *)

Next ==
    \/ Mount
    \/ SurfaceReady
    \/ \E theme \in Themes : ThemeChange(theme)
    \/ \E loc \in Locales : LocaleChange(loc)
    \/ ViewportChange
    \/ \E records \in Datasets(Records, MaxRecords) : DatasetArrive(records)
    \/ \E features \in HitLists : Click(features)
    \/ PopupClose
    \/ Unmount

Spec == Init /\ [][Next]_vars

\* The style expressions on their own: one theme and locale, datasets of one
\* repeated photo up to MaxRampSize, every zoom level.
InitStyle ==
    /\ Init
    /\ resolvedTheme = "light"
    /\ locale = "en"
    /\ rootStyle = << >>

NextStyle ==
    \/ Mount
    \/ SurfaceReady
    \/ ViewportChange
    \/ \E records \in Datasets({ PhotoA }, MaxRampSize) : DatasetArrive(records)
    \/ \E z \in ZoomLevels : ZoomTo(z)

SpecStyle == InitStyle /\ [][NextStyle]_vars

-----------------------------------------------------------------------------
(* Properties                                                               *)

Features == Val(geojsonData).features
DatasetSize == Len(Val(coordinates))

\* C1: on one surface instance the language control is attached only while
\* the locale is "zh", and exactly once: every attachment happens under "zh"
\* on an instance that carries no language control yet, and a ready surface
\* under "zh" carries one.
C1_AttachedOnceOnlyForZh ==
    [][ /\ languageControls' # languageControls =>
             /\ locale' = "zh"
             /\ languageControls = 0
             /\ languageControls' = 1
        /\ (mapReady' /\ locale' = "zh") => languageControls' = 1 ]_vars

\* C2: the selection is Selected(F) exactly when the most recent click or
\* close request was a click whose top-most hit was the point feature F, and
\* Empty otherwise; the payload is F's own longitude, latitude, url, blur
\* placeholder, width and height; at most one popup is rendered.
C2_SelectionIsLastPointHit ==
    /\ popupInfo =
         IF lastHit # Null /\ Val(lastHit).geometry.type = "Point"
         THEN Some([ longitude |-> Val(lastHit).geometry.coordinates[1],
                     latitude |-> Val(lastHit).geometry.coordinates[2],
                     url |-> Val(lastHit).properties.url,
                     blurData |-> Val(lastHit).properties.blurData,
                     width |-> Val(lastHit).properties.width,
                     height |-> Val(lastHit).properties.height ])
         ELSE Null
    /\ Cardinality(RenderedPopups) <= 1

C2_SecondFeatureSelected ==
    /\ lastEvent = "click"
    /\ coordinates = Some(<< PhotoA, PhotoB >>)
    /\ lastHit = Some(Features[2])
    /\ popupInfo # Null
    /\ Val(popupInfo).url = "b.jpg"

\* C3: the theme override of --background and --foreground rolls back: every
\* activation records the values the variables had before the component
\* mounted (each deactivation having restored them); while mounted the
\* variables hold the pair of the current theme alone, so that going to dark
\* and back gives the same values again; and after teardown the root
\* element's style is what it was before the component mounted.
C3_ThemeOverrideRollsBack ==
    /\ mountState = "mounted" =>
         /\ originalBackground = GetPropertyValue(initialStyle, "--background")
         /\ originalForeground = GetPropertyValue(initialStyle, "--foreground")
         /\ GetPropertyValue(rootStyle, "--background") =
              (IF resolvedTheme = "dark" THEN "#333333" ELSE "#f5f5f5")
         /\ GetPropertyValue(rootStyle, "--foreground") =
              (IF resolvedTheme = "dark" THEN "#f0f0f0" ELSE "#333333")
    /\ mountState = "unmounted" => rootStyle = initialStyle

C3_TornDownAfterOverride ==
    /\ lastEvent = "unmount"
    /\ resolvedTheme = "dark"
    /\ "--background" \in DOMAIN initialStyle
    /\ "--foreground" \notin DOMAIN initialStyle
    /\ rootStyle = initialStyle

\* C4: whenever the photo layers are rendered the colour ramp's upper stop is
\* strictly greater than its lower stop 0, and for an empty dataset it is 1.
C4_RampDomainNotDegenerate ==
    LayersRendered =>
        /\ StopsValid(0, RampUpper(coordinates))
        /\ DatasetSize = 0 => RampUpper(coordinates) = 1

\* C5 as stated: for a dataset of exactly two records the collection has the
\* features 0 and 1, feature 0 has the start colour of both ramps and
\* feature 1 the end colour of both ramps.
C5_SecondOfTwoHasEndColor ==
    (coordinates # Null /\ DatasetSize = 2) =>
        /\ Len(Features) = 2
        /\ Features[1].properties.id = 0
        /\ Features[2].properties.id = 1
        /\ ColorEq(GlowColor(Features[1].properties.id, coordinates),
                   Solid(GlowStart))
        /\ ColorEq(PointColor(Features[1].properties.id, coordinates),
                   Solid(PointStart))
        /\ ColorEq(GlowColor(Features[2].properties.id, coordinates),
                   Solid(GlowEnd))
        /\ ColorEq(PointColor(Features[2].properties.id, coordinates),
                   Solid(PointEnd))

\* C5 amended: for a dataset of exactly two records the collection has the
\* features 0 and 1, feature 0 has the start colour of both ramps and
\* feature 1 the colour halfway between start and end (the ramp's domain
\* ends at 2, one past the last index), which is not the end colour.
C5_SecondOfTwoHasMidColor ==
    (coordinates # Null /\ DatasetSize = 2) =>
        /\ Len(Features) = 2
        /\ Features[1].properties.id = 0
        /\ Features[2].properties.id = 1
        /\ ColorEq(GlowColor(Features[1].properties.id, coordinates),
                   Solid(GlowStart))
        /\ ColorEq(PointColor(Features[1].properties.id, coordinates),
                   Solid(PointStart))
        /\ \A c \in Channels :
             /\ FracEq(GlowColor(Features[2].properties.id, coordinates)[c],
                       Frac(GlowStart[c] + GlowEnd[c], 2))
             /\ FracEq(PointColor(Features[2].properties.id, coordinates)[c],
                       Frac(PointStart[c] + PointEnd[c], 2))
        /\ ~ColorEq(GlowColor(Features[2].properties.id, coordinates),
                    Solid(GlowEnd))
        /\ ~ColorEq(PointColor(Features[2].properties.id, coordinates),
                    Solid(PointEnd))

C5_TwoRecordsRendered ==
    /\ coordinates = Some(<< PhotoA, PhotoB >>)
    /\ LayersRendered
    /\ mapReady

\* C6: the feature builder returns null for a null input, so that no photo
\* layer is rendered; otherwise the collection has the input's length and
\* order, the feature at position i has index i and is a point carrying
\* record i's longitude, latitude, url, blur placeholder, width and height.
C6_FeaturesMirrorRecords ==
    /\ coordinates = Null => (geojsonData = Null /\ ~LayersRendered)
    /\ coordinates # Null =>
         /\ geojsonData # Null
         /\ LayersRendered
         /\ Len(Features) = DatasetSize
         /\ \A i \in 1..DatasetSize :
              /\ Features[i].properties.id = i - 1
              /\ Features[i].geometry.type = "Point"
              /\ Features[i].geometry.coordinates[1] =
                   Val(coordinates)[i].longitude
              /\ Features[i].geometry.coordinates[2] =
                   Val(coordinates)[i].latitude
              /\ Features[i].properties.url = Val(coordinates)[i].url
              /\ Features[i].properties.blurData = Val(coordinates)[i].blurData
              /\ Features[i].properties.width = Val(coordinates)[i].width
              /\ Features[i].properties.height = Val(coordinates)[i].height

C6_TwoDistinctRecordsBuilt ==
    /\ coordinates = Some(<< PhotoB, PhotoA >>)
    /\ lastEvent = "dataset"

\* C7: at every zoom level from 0 to 22 the hit-target radius exceeds the
\* glow radius, which exceeds the point radius, and each of the three radii
\* is strictly larger one zoom step further in.
C7_RadiiOrderedAndIncreasing ==
    /\ FracLt(GlowRadius(zoom), HitboxRadius(zoom))
    /\ FracLt(PointRadius(zoom), GlowRadius(zoom))
    /\ zoom < MaxZoom * ZoomDen =>
         /\ FracLt(HitboxRadius(zoom), HitboxRadius(zoom + 1))
         /\ FracLt(GlowRadius(zoom), GlowRadius(zoom + 1))
         /\ FracLt(PointRadius(zoom), PointRadius(zoom + 1))

C7_ZoomedBetweenLevels ==
    /\ LayersRendered
    /\ lastEvent = "zoom"
    /\ zoom > ZoomDen
    /\ zoom < MaxZoom * ZoomDen
    /\ zoom % ZoomDen # 0

Between(x, a, b) ==
    \/ FracLe(Frac(a, 1), x) /\ FracLe(x, Frac(b, 1))
    \/ FracLe(Frac(b, 1), x) /\ FracLe(x, Frac(a, 1))

Toward(x, y, a, b) == IF a <= b THEN FracLe(x, y) ELSE FracLe(y, x)

RampBehaves(color(_, _), start, end) ==
    /\ ColorEq(color(0, coordinates), Solid(start))
    /\ ColorEq(color(DatasetSize, coordinates), Solid(end))
    /\ \A index \in 0..DatasetSize : \A c \in Channels :
         /\ Between(color(index, coordinates)[c], start[c], end[c])
         /\ index < DatasetSize =>
              Toward(color(index, coordinates)[c],
                     color(index + 1, coordinates)[c], start[c], end[c])

\* C8: for a dataset of size n >= 1 and every index from 0 to n, each channel
\* of the glow colour and of the point colour lies between the ramp's start
\* and end channel, is the start colour at index 0 and the end colour at
\* index n, and moves from start toward end as the index grows.
C8_RampBetweenStartAndEnd ==
    (coordinates # Null /\ DatasetSize >= 1) =>
        /\ RampBehaves(GlowColor, GlowStart, GlowEnd)
        /\ RampBehaves(PointColor, PointStart, PointEnd)

C8_LargestDatasetRendered ==
    /\ coordinates # Null
    /\ DatasetSize = MaxRampSize
    /\ mapReady

\* C9: the map style is the dark style exactly when the theme is "dark", and
\* the light style for every other theme value.
C9_DarkStyleElseLightStyle ==
    mapStyle = (IF resolvedTheme = "dark" THEN DarkStyle ELSE LightStyle)

\* C10: the selection changes only in a click or a popup close: a theme,
\* viewport, locale or dataset change leaves popupInfo as it was.
C10_SelectionChangesOnlyByClickOrClose ==
    [][ popupInfo' # popupInfo => lastEvent' \in { "click", "close" } ]_vars

C10_PopupOutlivesItsDataset ==
    /\ lastEvent = "dataset"
    /\ popupInfo # Null
    /\ Val(popupInfo).url = "b.jpg"
    /\ \A i \in 1..DatasetSize : Val(coordinates)[i].url # "b.jpg"

=============================================================================
